---- MODULE Spec2Model ----
(***************************************************************************)
(* Model of scripts/build_function_zips.py: the packaging of Go Cloud      *)
(* Function sources into deterministic zip archives.                       *)
(*                                                                         *)
(* A name is a Python str, modelled as the sequence of its code points, so *)
(* that str.endswith, == and the ordering used by sorted()/list.sort() are *)
(* computed and not assumed.  A path is a sequence of names.               *)
(***************************************************************************)
EXTENDS Integers, Sequences, FiniteSets, TLC

\* ---------------------------------------------------------------- names
ROUTER == <<114, 111, 117, 116, 101, 114>>  \* "router"
ENRICHER == <<101, 110, 114, 105, 99, 104, 101, 114>>  \* "enricher"
STRAVA_UPLOADER == <<115, 116, 114, 97, 118, 97, 45, 117, 112, 108, 111, 97, 100, 101, 114>>  \* "strava-uploader"
PKG == <<112, 107, 103>>  \* "pkg"
GO_MOD == <<103, 111, 46, 109, 111, 100>>  \* "go.mod"
GO_SUM == <<103, 111, 46, 115, 117, 109>>  \* "go.sum"
CMD == <<99, 109, 100>>  \* "cmd"
MAIN_GO == <<109, 97, 105, 110, 46, 103, 111>>  \* "main.go"
TEST_SUFFIX == <<95, 116, 101, 115, 116, 46, 103, 111>>  \* "_test.go"
\* names that occur only in the source trees the model is run on
A_GO == <<97, 46, 103, 111>>  \* "a.go"
A_TEST_GO == <<97, 95, 116, 101, 115, 116, 46, 103, 111>>  \* "a_test.go"
TOOL_GO == <<116, 111, 111, 108, 46, 103, 111>>  \* "tool.go"
SUB == <<115, 117, 98>>  \* "sub"
B_GO == <<98, 46, 103, 111>>  \* "b.go"
B_TEST_GO == <<98, 95, 116, 101, 115, 116, 46, 103, 111>>  \* "b_test.go"
T_GO == <<116, 46, 103, 111>>  \* "t.go"
Z_GO_UPPER == <<90, 46, 103, 111>>  \* "Z.go"
LIB_GO == <<108, 105, 98, 46, 103, 111>>  \* "lib.go"
LIB_TEST_GO == <<108, 105, 98, 95, 116, 101, 115, 116, 46, 103, 111>>  \* "lib_test.go"
X_GO == <<120, 46, 103, 111>>  \* "x.go"
OLD_GO == <<111, 108, 100, 46, 103, 111>>  \* "old.go"
D_TEST_GO == <<100, 95, 116, 101, 115, 116, 46, 103, 111>>  \* "d_test.go"
Y_GO == <<121, 46, 103, 111>>  \* "y.go"
JUNK == <<106, 117, 110, 107>>  \* "junk"

\* the list main() iterates over
FUNCTION_NAMES == <<ROUTER, ENRICHER, STRAVA_UPLOADER>>
Units == {FUNCTION_NAMES[i] : i \in 1..Len(FUNCTION_NAMES)}

\* the date_time the script stamps on every entry
FIXED_DATE == <<1980, 1, 1, 0, 0, 0>>

\* ---------------------------------------------------------------- bounds
\* invocations (of main or of create_function_zip) in one behaviour
MaxRuns == 2
\* I/O faults the environment injects in one behaviour
MaxFaults == 1

\* ---------------------------------------------------------------- str
\* str.endswith
EndsWith(f, suffix) ==
    /\ Len(f) >= Len(suffix)
    /\ SubSeq(f, Len(f) - Len(suffix) + 1, Len(f)) = suffix

\* a < b on Python str: lexicographic by code point
StrLess(a, b) ==
    \E i \in 1..(Len(a) + 1) :
        /\ \A j \in 1..(i - 1) : j <= Len(b) /\ a[j] = b[j]
        /\ \/ i = Len(a) + 1 /\ Len(b) >= i
           \/ i <= Len(a) /\ i <= Len(b) /\ a[i] < b[i]

RECURSIVE Insert(_, _)
Insert(x, s) ==
    IF s = <<>> THEN <<x>>
    ELSE IF StrLess(x, Head(s)) THEN <<x>> \o s
    ELSE <<Head(s)>> \o Insert(x, Tail(s))

\* the order list.sort() and sorted() give a list of str
RECURSIVE ListSort(_)
ListSort(s) == IF s = <<>> THEN <<>> ELSE Insert(Head(s), ListSort(Tail(s)))

\* ---------------------------------------------------------------- trees
\* A directory tree: whether its root exists, the paths (relative to the root)
\* of its sub-directories, and its regular files with what os.stat and read()
\* return for them.
NoTree == [exists |-> FALSE, dirs |-> {}, files |-> {}]
EmptyTree == [exists |-> TRUE, dirs |-> {}, files |-> {}]

Prefixes(p) == {SubSeq(p, 1, i) : i \in 1..(Len(p) - 1)}
Paths(tree) == tree.dirs \cup {f.path : f \in tree.files}
FileAt(tree, p) == CHOOSE f \in tree.files : f.path = p
HasFile(tree, p) == \E f \in tree.files : f.path = p

\* the names os.scandir reports for directory top of the tree
ChildNames(tree, top) ==
    {p[Len(top) + 1] : p \in {q \in Paths(tree) :
        Len(q) = Len(top) + 1 /\ SubSeq(q, 1, Len(top)) = top}}

\* every order in which a directory listing may report a set of names
Listings(names) ==
    {l \in [1..Cardinality(names) -> names] :
        \A i, j \in 1..Cardinality(names) : l[i] = l[j] => i = j}

\* the tree placed below the directory named by path at
Graft(tree, at) ==
    [exists |-> TRUE,
     dirs |-> {at} \cup {at \o d : d \in tree.dirs},
     files |-> {[f EXCEPT !.path = at \o f.path] : f \in tree.files}]

Merge(a, b) ==
    [exists |-> TRUE, dirs |-> a.dirs \cup b.dirs, files |-> a.files \cup b.files]

\* ---------------------------------------------------------------- copying
\* mutants of ignore_patterns: the test for cmd, or for main.go, forgotten
ignore_patterns_without_cmd(dir, files) ==
    {f \in files : EndsWith(f, TEST_SUFFIX) \/ f = MAIN_GO}
ignore_patterns_without_main(dir, files) ==
    {f \in files : EndsWith(f, TEST_SUFFIX) \/ f = CMD}

\* ignore_patterns(dir, files) of create_function_zip: the names not copied
\* from a directory of the function's own source
ignore_patterns(dir, files) ==
    {f \in files : EndsWith(f, TEST_SUFFIX) \/ f = MAIN_GO \/ f = CMD}

\* mutant of ignore_test_files: the shared directory copied unfiltered
ignore_nothing(dir, files) == {}

\* shutil.ignore_patterns('*_test.go'): fnmatch of "*" followed by a literal
ignore_test_files(dir, files) ==
    {f \in files : EndsWith(f, TEST_SUFFIX)}

\* shutil.copytree(src, dst, ignore=...): at every directory the names the
\* callback returns are skipped, the other sub-directories are copied
\* recursively and the other files are copied with copy2 (content, mode and
\* mtime).  An entry arrives iff no name on its path was skipped at its level.
\* ignored[d] is what the callback returns at directory d.
copytree(tree, ignored) ==
    LET Kept(p) == \A i \in 1..Len(p) : p[i] \notin ignored[SubSeq(p, 1, i - 1)]
    IN  [exists |-> TRUE,
         dirs |-> {d \in tree.dirs : Kept(d)},
         files |-> {f \in tree.files : Kept(f.path)}]

\* mutant of CleanTempDir: mkdir(exist_ok=True) without the rmtree
KeepTempDir(temp) == IF temp.exists THEN temp ELSE EmptyTree

\* lines 16-18: rmtree of a stale temp_dir, then mkdir
CleanTempDir(temp) == EmptyTree

\* line 30: the function directory goes to temp_dir/<function_name>
StagePrivate(temp, source, name) ==
    LET function_dir == source.functions[name]
    IN  Merge(temp,
              Graft(copytree(function_dir,
                             [d \in {<<>>} \cup function_dir.dirs |->
                                 ignore_patterns(d, ChildNames(function_dir, d))]),
                    <<name>>))

\* lines 33-35: the shared pkg directory, when it exists, goes to temp_dir/pkg
StageShared(temp, source) ==
    IF source.pkg.exists
    THEN Merge(temp,
               Graft(copytree(source.pkg,
                              [d \in {<<>>} \cup source.pkg.dirs |->
                                  ignore_test_files(d, ChildNames(source.pkg, d))]),
                     <<PKG>>))
    ELSE temp

\* lines 38-39: shutil.copy2 of a manifest of src_dir to the top of temp_dir
HasManifest(source, name) == \E f \in source.manifests : f.path = <<name>>
CopyManifest(temp, source, name) ==
    [temp EXCEPT !.files = @ \cup {f \in source.manifests : f.path = <<name>>}]

\* mutant of RemoveStaging: the rmtree forgotten
KeepStaging(temp) == temp

\* line 66: shutil.rmtree(temp_dir)
RemoveStaging(temp) == NoTree

\* ---------------------------------------------------------------- walking
\* mutant of SortDirs: the directories left in listing order
UnsortedDirs(dirs) == dirs

\* line 47: dirs.sort()
SortDirs(dirs) == ListSort(dirs)

\* line 49: sorted(files)
SortedFiles(files) == ListSort(files)

\* One iteration of the os.walk loop (lines 45-50) at directory top, given the
\* order in which the directory was listed: the sub-directories os.walk will
\* descend into, in order, and the file paths appended to all_files.
WalkDir(tree, top, listing) ==
    LET IsDir(n) == (top \o <<n>>) \in tree.dirs
        IsFile(n) == ~IsDir(n)
        NotCmd(d) == d # CMD
        dirs == SortDirs(SelectSeq(SelectSeq(listing, IsDir), NotCmd))
        files == SortedFiles(SelectSeq(listing, IsFile))
    IN  [dirs |-> [i \in 1..Len(dirs) |-> top \o <<dirs[i]>>],
         files |-> [i \in 1..Len(files) |-> top \o <<files[i]>>]]

\* the whole top-down walk from a stack of pending directories, for one
\* (arbitrary) listing order
RECURSIVE os_walk(_, _, _)
os_walk(tree, stack, acc) ==
    IF stack = <<>> THEN acc
    ELSE LET top == Head(stack)
             listing == CHOOSE l \in Listings(ChildNames(tree, top)) : TRUE
             w == WalkDir(tree, top, listing)
         IN  os_walk(tree, w.dirs \o Tail(stack), acc \o w.files)

\* ---------------------------------------------------------------- archive
\* zipfile.ZipInfo.from_file(file_path, arcname) as the script uses it: the
\* entry takes the file's mtime and mode bits; compress_type stays the
\* ZipInfo default.  external_attr is (st_mode & 0xFFFF) << 16, a 32-bit
\* value kept here as its two 16-bit halves.
from_file(file, arcname) ==
    [filename |-> arcname,
     date_time |-> file.mtime,
     external_attr |-> [high16 |-> file.mode % 65536, low16 |-> 0],
     compress_type |-> "ZIP_STORED"]

\* ZipInfo refuses a date before 1980 (strict_timestamps)
StatOk(tree, p) == HasFile(tree, p) /\ FileAt(tree, p).mtime[1] >= FIXED_DATE[1]

\* lines 53-63: the entry written for one staged file
ArchiveEntry(file, arcname) ==
    [zinfo |-> [from_file(file, arcname) EXCEPT !.date_time = FIXED_DATE],
     data |-> file.data]

\* lines 42-63 on an undisturbed staging tree: the entries of the archive
ArchiveOf(tree) ==
    LET fs == os_walk(tree, << <<>> >>, <<>>)
    IN  [i \in 1..Len(fs) |-> ArchiveEntry(FileAt(tree, fs[i]), fs[i])]

\* lines 16-39 from an empty output directory: the staging tree of a function
Stage(source, name) ==
    CopyManifest(
        CopyManifest(
            StageShared(StagePrivate(CleanTempDir(NoTree), source, name), source),
            source, GO_MOD),
        source, GO_SUM)

\* ---------------------------------------------------------------- inputs
\* a regular file, mode 0o100644, with its content named by a label
File(p, d) == [path |-> p, data |-> d, mode |-> 33188, mtime |-> <<2024, 1, 1, 10, 0, 0>>]
TreeOf(files) ==
    [exists |-> TRUE, dirs |-> UNION {Prefixes(f.path) : f \in files}, files |-> files]

\* st_mode values a staged regular file may have: 0o100644, 0o100755
FileModes == {33188, 33261}
\* mtimes a staged file may have
FileTimes == {<<2024, 1, 1, 10, 0, 0>>, <<2025, 6, 30, 23, 59, 58>>}

\* a function directory holding a.go, a_test.go, main.go and cmd/tool.go
PrivFlat ==
    TreeOf({File(<<A_GO>>, "a"), File(<<A_TEST_GO>>, "a_test"),
            File(<<MAIN_GO>>, "main"), File(<<CMD, TOOL_GO>>, "tool")})
\* a function directory with the excluded names one and two levels down
PrivDeep ==
    TreeOf({File(<<Z_GO_UPPER>>, "z"), File(<<B_GO>>, "b"),
            File(<<SUB, B_GO>>, "sub_b"), File(<<SUB, B_TEST_GO>>, "sub_b_test"),
            File(<<SUB, MAIN_GO>>, "sub_main"), File(<<SUB, CMD, T_GO>>, "sub_cmd_t"),
            File(<<A_GO, MAIN_GO>>, "a_main")})
\* a shared pkg directory with a test file, a main.go, a cmd directory and a
\* directory whose own name ends with _test.go
SharedPkg ==
    TreeOf({File(<<LIB_GO>>, "lib"), File(<<LIB_TEST_GO>>, "lib_test"),
            File(<<MAIN_GO>>, "pkg_main"), File(<<CMD, X_GO>>, "pkg_cmd_x"),
            File(<<D_TEST_GO, Y_GO>>, "y"), File(<<SUB, LIB_TEST_GO>>, "sub_lib_test")})

Manifests == {File(<<GO_MOD>>, "mod"), File(<<GO_SUM>>, "sum")}

\* the source trees (src_dir) the model is run on: every function directory
\* has the same layout, either the flat one without a shared directory or the
\* deep one with it, and at most one thing is missing: one function directory,
\* go.mod or go.sum
Sources ==
    {[functions |-> [u \in Units |-> IF missing = u THEN NoTree ELSE setup[1]],
      pkg |-> setup[2],
      manifests |-> {f \in Manifests : f.path # <<missing>>}] :
        setup \in {<<PrivFlat, NoTree>>, <<PrivDeep, SharedPkg>>},
        missing \in Units \cup {GO_MOD, GO_SUM, <<>>}}

NoZip == [exists |-> FALSE, entries |-> <<>>]
\* the output directory: per function its <name>_temp tree and <name>.zip,
\* and the other entries it holds
CleanOutput ==
    [temp |-> [u \in Units |-> NoTree], zip |-> [u \in Units |-> NoZip], other |-> {}]
\* what a crashed run of an older checkout left behind: a staging directory with
\* a file that is no longer in the sources, its archive, and a foreign entry
StaleOutput ==
    [temp |-> [u \in Units |->
                 IF u = ROUTER THEN TreeOf({File(<<ROUTER, OLD_GO>>, "old")}) ELSE NoTree],
     zip |-> [u \in Units |->
                 IF u = ROUTER
                 THEN [exists |-> TRUE,
                       entries |-> <<ArchiveEntry(File(<<ROUTER, OLD_GO>>, "old"),
                                                  <<ROUTER, OLD_GO>>)>>]
                 ELSE NoZip],
     other |-> {JUNK}]

\* ---------------------------------------------------------------- state
VARIABLES
    src,            \* src_dir: functions/<name>, pkg, go.mod and go.sum
    out,            \* output_dir
    pc,             \* where the running invocation stands
    mode,           \* "main": main() is running; "direct": create_function_zip was called
    idx,            \* main's position in FUNCTION_NAMES (0 outside main)
    function_name,  \* the argument of the running create_function_zip
    had_stale,      \* whether temp_dir existed at line 16 of the running call
    walk_stack,     \* directories os.walk has still to visit
    all_files,      \* all_files of line 44
    wi,             \* index in all_files of the next file_path of the loop at line 52
    raised_at,      \* the call that raised the exception that ended the invocation
    runs,           \* invocations started
    faults          \* faults injected

vars == <<src, out, pc, mode, idx, function_name, had_stale, walk_stack,
          all_files, wi, raised_at, runs, faults>>

frame == <<had_stale, walk_stack, all_files, wi>>

Init ==
    /\ src \in Sources
    /\ out \in {CleanOutput, StaleOutput}
    /\ pc = "idle"
    /\ mode = "none"
    /\ idx = 0
    /\ function_name = ROUTER
    /\ had_stale = FALSE
    /\ walk_stack = <<>>
    /\ all_files = <<>>
    /\ wi = 1
    /\ raised_at = "none"
    /\ runs = 0
    /\ faults = 0

temp_dir == out.temp[function_name]
zip_file == out.zip[function_name]
Idle == pc \in {"idle", "done", "raised"}

\* lines 77-79: rmtree of output_dir, then mkdir
CleanOutputDir(o) == CleanOutput

\* mutant of Propagate: main catches the exception and goes on with the next
\* function
Swallow(m) == IF m = "main" THEN "return" ELSE "raised"

\* an exception leaving create_function_zip: nothing in create_function_zip or
\* in main (lines 82-83) catches it, so the invocation ends with it
Propagate(m) == "raised"

Raise(at) ==
    /\ pc' = Propagate(mode)
    /\ raised_at' = IF Propagate(mode) = "raised" THEN at ELSE raised_at

\* ---------------------------------------------------------------- actions
\* main(): lines 72-83 up to the first call of create_function_zip
StartMain ==
    /\ Idle /\ runs < MaxRuns
    /\ runs' = runs + 1
    /\ mode' = "main"
    /\ out' = CleanOutputDir(out)
    /\ idx' = 1
    /\ function_name' = FUNCTION_NAMES[1]
    /\ pc' = "clean"
    /\ raised_at' = "none"
    /\ had_stale' = FALSE /\ walk_stack' = <<>> /\ all_files' = <<>> /\ wi' = 1
    /\ UNCHANGED <<src, faults>>

\* create_function_zip(name, src_dir, output_dir) called on its own
StartDirect(name) ==
    /\ Idle /\ runs < MaxRuns
    /\ runs' = runs + 1
    /\ mode' = "direct"
    /\ idx' = 0
    /\ function_name' = name
    /\ pc' = "clean"
    /\ raised_at' = "none"
    /\ had_stale' = FALSE /\ walk_stack' = <<>> /\ all_files' = <<>> /\ wi' = 1
    /\ UNCHANGED <<src, out, faults>>

\* lines 16-18
CleanTemp ==
    /\ pc = "clean"
    /\ had_stale' = temp_dir.exists
    /\ out' = [out EXCEPT !.temp[function_name] = CleanTempDir(@)]
    /\ pc' = "copy_private"
    /\ UNCHANGED <<src, mode, idx, function_name, walk_stack, all_files, wi,
                   raised_at, runs, faults>>

\* line 30
CopyPrivate ==
    /\ pc = "copy_private"
    /\ src.functions[function_name].exists
    /\ out' = [out EXCEPT !.temp[function_name] = StagePrivate(@, src, function_name)]
    /\ pc' = "copy_shared"
    /\ UNCHANGED <<src, mode, idx, function_name, frame, raised_at, runs, faults>>

\* line 30 when function_dir does not exist: copytree raises before it creates dst
CopyPrivateFails ==
    /\ pc = "copy_private"
    /\ ~src.functions[function_name].exists
    /\ Raise("copytree")
    /\ UNCHANGED <<src, out, mode, idx, function_name, frame, runs, faults>>

\* lines 33-35
CopyShared ==
    /\ pc = "copy_shared"
    /\ out' = [out EXCEPT !.temp[function_name] = StageShared(@, src)]
    /\ pc' = "copy_mod"
    /\ UNCHANGED <<src, mode, idx, function_name, frame, raised_at, runs, faults>>

\* line 38
CopyGoMod ==
    /\ pc = "copy_mod"
    /\ HasManifest(src, GO_MOD)
    /\ out' = [out EXCEPT !.temp[function_name] = CopyManifest(@, src, GO_MOD)]
    /\ pc' = "copy_sum"
    /\ UNCHANGED <<src, mode, idx, function_name, frame, raised_at, runs, faults>>

\* line 38 when src_dir has no go.mod
CopyGoModFails ==
    /\ pc = "copy_mod"
    /\ ~HasManifest(src, GO_MOD)
    /\ Raise("copy2")
    /\ UNCHANGED <<src, out, mode, idx, function_name, frame, runs, faults>>

\* line 39
CopyGoSum ==
    /\ pc = "copy_sum"
    /\ HasManifest(src, GO_SUM)
    /\ out' = [out EXCEPT !.temp[function_name] = CopyManifest(@, src, GO_SUM)]
    /\ pc' = "open_zip"
    /\ UNCHANGED <<src, mode, idx, function_name, frame, raised_at, runs, faults>>

\* line 39 when src_dir has no go.sum
CopyGoSumFails ==
    /\ pc = "copy_sum"
    /\ ~HasManifest(src, GO_SUM)
    /\ Raise("copy2")
    /\ UNCHANGED <<src, out, mode, idx, function_name, frame, runs, faults>>

\* line 42: ZipFile(zip_path, 'w') creates or truncates the archive file
OpenZip ==
    /\ pc = "open_zip"
    /\ out' = [out EXCEPT !.zip[function_name] = [exists |-> TRUE, entries |-> <<>>]]
    /\ walk_stack' = << <<>> >>
    /\ all_files' = <<>>
    /\ wi' = 1
    /\ pc' = "walk"
    /\ UNCHANGED <<src, mode, idx, function_name, had_stale, raised_at, runs, faults>>

\* line 42 when the archive file cannot be created
OpenZipFails ==
    /\ pc = "open_zip"
    /\ faults < MaxFaults
    /\ faults' = faults + 1
    /\ Raise("ZipFile")
    /\ UNCHANGED <<src, out, mode, idx, function_name, frame, runs>>

\* lines 45-50: one directory of the walk, listed in any order
WalkStep ==
    /\ pc = "walk"
    /\ walk_stack # <<>>
    /\ \E listing \in Listings(ChildNames(temp_dir, Head(walk_stack))) :
          LET w == WalkDir(temp_dir, Head(walk_stack), listing)
          IN  /\ all_files' = all_files \o w.files
              /\ walk_stack' = w.dirs \o Tail(walk_stack)
    /\ pc' = IF walk_stack' = <<>> THEN "write" ELSE "walk"
    /\ UNCHANGED <<src, out, mode, idx, function_name, had_stale, wi, raised_at,
                   runs, faults>>

\* lines 52-63 for one file_path
WriteEntry ==
    /\ pc = "write"
    /\ wi <= Len(all_files)
    /\ StatOk(temp_dir, all_files[wi])
    /\ out' = [out EXCEPT !.zip[function_name].entries =
                  Append(@, ArchiveEntry(FileAt(temp_dir, all_files[wi]), all_files[wi]))]
    /\ wi' = wi + 1
    /\ UNCHANGED <<src, pc, mode, idx, function_name, had_stale, walk_stack,
                   all_files, raised_at, runs, faults>>

\* lines 56-62 when the staged file cannot be read: the exception leaves the
\* with block, whose exit closes the archive with the entries written so far
ReadFails ==
    /\ pc = "write"
    /\ wi <= Len(all_files)
    /\ ~StatOk(temp_dir, all_files[wi])
    /\ Raise("from_file")
    /\ UNCHANGED <<src, out, mode, idx, function_name, frame, runs, faults>>

\* line 63 when the archive cannot be written
WriteFails ==
    /\ pc = "write"
    /\ wi <= Len(all_files)
    /\ StatOk(temp_dir, all_files[wi])
    /\ faults < MaxFaults
    /\ faults' = faults + 1
    /\ Raise("writestr")
    /\ UNCHANGED <<src, out, mode, idx, function_name, frame, runs>>

\* line 66, after the with block has closed the archive
RemoveTemp ==
    /\ pc = "write"
    /\ wi > Len(all_files)
    /\ out' = [out EXCEPT !.temp[function_name] = RemoveStaging(@)]
    /\ pc' = "return"
    /\ UNCHANGED <<src, mode, idx, function_name, frame, raised_at, runs, faults>>

\* lines 68-69, and in main the next iteration of the loop of line 82
Return ==
    /\ pc = "return"
    /\ IF mode = "main" /\ idx < Len(FUNCTION_NAMES)
       THEN /\ idx' = idx + 1
            /\ function_name' = FUNCTION_NAMES[idx + 1]
            /\ pc' = "clean"
       ELSE /\ pc' = "done"
            /\ UNCHANGED <<idx, function_name>>
    /\ UNCHANGED <<src, out, mode, frame, raised_at, runs, faults>>

\* the environment: a staged file that the walk has enumerated disappears
\* before the loop of line 52 reads it.  The script notices the loss only when
\* it comes to the file, so the loss is placed right before that iteration.
StagedFileVanishes ==
    /\ pc = "write"
    /\ faults < MaxFaults
    /\ wi <= Len(all_files)
    /\ HasFile(temp_dir, all_files[wi])
    /\ out' = [out EXCEPT !.temp[function_name].files =
                  {f \in @ : f.path # all_files[wi]}]
    /\ faults' = faults + 1
    /\ UNCHANGED <<src, pc, mode, idx, function_name, frame, raised_at, runs>>

Next ==
    \/ StartMain
    \/ \E name \in Units : StartDirect(name)
    \/ CleanTemp
    \/ CopyPrivate
    \/ CopyPrivateFails
    \/ CopyShared
    \/ CopyGoMod
    \/ CopyGoModFails
    \/ CopyGoSum
    \/ CopyGoSumFails
    \/ OpenZip
    \/ OpenZipFails
    \/ WalkStep
    \/ WriteEntry
    \/ ReadFails
    \/ WriteFails
    \/ RemoveTemp
    \/ Return
    \/ StagedFileVanishes

Spec == Init /\ [][Next]_vars

\* ---------------------------------------------------------------- claims
Last(p) == p[Len(p)]
EntryNames(zip) == [i \in 1..Len(zip.entries) |-> zip.entries[i].zinfo.filename]
EntryNameSet(zip) == {zip.entries[i].zinfo.filename : i \in 1..Len(zip.entries)}
\* the copy steps of the running call have populated temp_dir
Staged == pc \in {"open_zip", "walk", "write"}
\* the running call has written and closed its archive
Written == pc = "write" /\ wi > Len(all_files)

\* C1: whenever create_function_zip fails after it created its staging
\* directory, that directory no longer exists when the error reaches the caller.
\* (Every exception of the model is raised after line 18.)
C1_StagingRemovedOnFailure ==
    pc = "raised" => ~temp_dir.exists

\* C2, as claimed: the staging tree holds at no depth a file whose name ends
\* with _test.go, an entry named main.go or a directory named cmd.
C2_NoExcludedNameStaged ==
    Staged =>
        /\ \A f \in temp_dir.files : ~EndsWith(Last(f.path), TEST_SUFFIX)
        /\ \A p \in Paths(temp_dir) : \A i \in 1..Len(p) : p[i] # MAIN_GO
        /\ \A d \in temp_dir.dirs : \A i \in 1..Len(d) : d[i] # CMD

\* C2, amended: the staging tree holds at no depth an entry whose name ends
\* with _test.go, and its part copied from the function's own directory
\* (<name>/...) holds at no depth an entry named main.go or cmd.
C2_PrivateFilteredSharedTestsOnly ==
    Staged =>
        /\ \A p \in Paths(temp_dir) : \A i \in 1..Len(p) : ~EndsWith(p[i], TEST_SUFFIX)
        /\ \A p \in Paths(temp_dir) :
              p[1] = function_name => \A i \in 1..Len(p) : p[i] \notin {MAIN_GO, CMD}

\* C2 witness: a staging tree made from a function directory with excluded
\* names below sub/, which kept sub/b.go, next to a shared cmd directory and a
\* shared main.go that were staged.
C2_Witness ==
    /\ Staged
    /\ src.functions[function_name] = PrivDeep
    /\ HasFile(temp_dir, <<function_name, SUB, B_GO>>)
    /\ HasFile(temp_dir, <<PKG, CMD, X_GO>>)
    /\ HasFile(temp_dir, <<PKG, MAIN_GO>>)

\* the order of the claim: within a directory the files come first, by name,
\* and then the content of each sub-directory, the sub-directories by name
PathLess(p, q) ==
    \E i \in 1..Len(p) :
        /\ i <= Len(q)
        /\ \A j \in 1..(i - 1) : p[j] = q[j]
        /\ p[i] # q[i]
        /\ IF i = Len(p) /\ i < Len(q) THEN TRUE
           ELSE IF i < Len(p) /\ i = Len(q) THEN FALSE
           ELSE StrLess(p[i], q[i])

UnderCmd(p) == \E i \in 1..(Len(p) - 1) : p[i] = CMD

\* C3: whatever order the directories were listed in, all_files is the staged
\* files outside cmd directories, each once, files of a directory in name order
\* before its sub-directories in name order.
C3_WalkOrderCanonical ==
    pc = "write" =>
        LET staged == {f.path : f \in Stage(src, function_name).files}
        IN  /\ \A i, j \in 1..Len(all_files) :
                  i < j => PathLess(all_files[i], all_files[j])
            /\ \A f \in temp_dir.files :
                  ~UnderCmd(f.path) => \E i \in 1..Len(all_files) : all_files[i] = f.path
            /\ \A i \in 1..Len(all_files) :
                  ~UnderCmd(all_files[i]) /\ all_files[i] \in staged

\* C3 witness: a finished walk over a tree with several files and several
\* sub-directories at its top and files two levels down.
C3_Witness ==
    /\ pc = "write"
    /\ Len(all_files) >= 6
    /\ \E i \in 1..Len(all_files) : Len(all_files[i]) = 3
    /\ Cardinality({d \in temp_dir.dirs : Len(d) = 1}) >= 2

\* the staging trees with the same paths and the same bytes per path as tree
\* and other metadata on one file
MetaTwins(tree) ==
    {[tree EXCEPT !.files = (@ \ {f}) \cup {[f EXCEPT !.mode = m, !.mtime = t]}] :
        f \in tree.files, m \in FileModes, t \in FileTimes}

\* C4: the archive written from a staging tree is the archive written from
\* any staging tree with the same paths and bytes, whatever the files' mtimes and
\* other metadata are.
C4_ArchiveIgnoresMetadata ==
    Written => \A twin \in MetaTwins(temp_dir) : ArchiveOf(twin) = zip_file.entries

\* the case of C5: the function directory holds a.go, a_test.go, main.go and
\* cmd/tool.go, there is no shared directory, and the call has returned
C5_Case ==
    /\ pc = "return"
    /\ src.functions[function_name] = PrivFlat
    /\ ~src.pkg.exists

\* C5, as claimed: the archive holds exactly one entry, <name>/a.go.
C5_OnlyPrivateEntry ==
    C5_Case => EntryNames(zip_file) = << <<function_name, A_GO>> >>

\* C5, amended: the archive holds exactly three entries, in this order: go.mod,
\* go.sum and <name>/a.go.
C5_ManifestsAndPrivateEntry ==
    C5_Case => EntryNames(zip_file) = << <<GO_MOD>>, <<GO_SUM>>, <<function_name, A_GO>> >>

\* C5 witness: the case of C5 with the archive written.
C5_Witness == C5_Case /\ zip_file.exists /\ mode = "direct"

\* C6, as claimed: a file of the shared directory has the entry pkg/<path> in
\* the archive of every packaged function iff its name does not end with _test.go.
C6_SharedFilteredByTestRuleOnly ==
    pc = "return" =>
        \A f \in src.pkg.files :
            (<<PKG>> \o f.path) \in EntryNameSet(zip_file)
                <=> ~EndsWith(Last(f.path), TEST_SUFFIX)

\* C6, amended: a file of the shared directory has the entry pkg/<path> in the
\* archive of every packaged function iff no name on its path ends with _test.go
\* and no directory on its path is named cmd.
C6_SharedMinusTestsAndCmd ==
    pc = "return" =>
        \A f \in src.pkg.files :
            (<<PKG>> \o f.path) \in EntryNameSet(zip_file)
                <=> /\ \A i \in 1..Len(f.path) : ~EndsWith(f.path[i], TEST_SUFFIX)
                    /\ ~UnderCmd(f.path)

\* C6 witness: the second function of a run of main has been packaged with a
\* shared directory that holds lib.go, lib_test.go and cmd/x.go.
C6_Witness ==
    /\ pc = "return" /\ mode = "main" /\ idx = 2
    /\ src.pkg = SharedPkg
    /\ <<PKG, LIB_GO>> \in EntryNameSet(zip_file)

\* C7: the archive a call of create_function_zip returns is the archive made
\* from the sources and an empty output directory, whatever the output
\* directory held when the call began.
C7_ArchiveIndependentOfOldOutput ==
    pc = "return" => zip_file.entries = ArchiveOf(Stage(src, function_name))

\* C7 witness: the second invocation returned, and its temp_dir had been left
\* behind by what came before.
C7_Witness == pc = "return" /\ had_stale /\ runs >= 2 /\ zip_file.entries # <<>>

Index(name) == CHOOSE i \in 1..Len(FUNCTION_NAMES) : FUNCTION_NAMES[i] = name

\* C8: in main every function before the current one has its archive and no
\* staging directory, no function after the current one has an archive or a
\* staging directory, also once a call has failed, and main ends normally
\* only with every archive written.
C8_FailFastInListOrder ==
    mode = "main" =>
        /\ function_name = FUNCTION_NAMES[idx]
        /\ \A u \in Units :
              /\ Index(u) < idx => out.zip[u].exists /\ ~out.temp[u].exists
              /\ Index(u) > idx => ~out.zip[u].exists /\ ~out.temp[u].exists
        /\ pc = "done" => \A u \in Units : out.zip[u].exists

\* C8 witness: main failed at its second function.
C8_Witness ==
    /\ mode = "main" /\ pc = "raised" /\ idx = 2
    /\ out.zip[FUNCTION_NAMES[1]].exists

\* C9: when a staged file cannot be read any more, no archive of the function
\* is left at zip_path after the abort.
C9_NoPartialArchive ==
    (pc = "raised" /\ raised_at = "from_file") => ~zip_file.exists

\* C10: during a run of main only the current function can have a staging
\* directory, and after a successful run the output directory holds the
\* archive of every function and nothing else.
C10_OneStagingAtATime ==
    mode = "main" =>
        /\ \A u \in Units : out.temp[u].exists => u = function_name
        /\ Cardinality({u \in Units : out.temp[u].exists}) <= 1
        /\ pc = "done" =>
              /\ \A u \in Units : out.zip[u].exists /\ ~out.temp[u].exists
              /\ out.other = {}

\* C10 witness: a run of main has ended successfully.
C10_Witness == mode = "main" /\ pc = "done" /\ runs = 1

====
